---- MODULE Spec2Model ----
(***************************************************************************)
(* Speech-to-text pipeline: the batch transcriber (main.py), the live      *)
(* microphone session (demo audio.py) and the spectral-subtraction noise   *)
(* reducer (main.py, reduce_noise).                                        *)
(*                                                                         *)
(* Three specifications share the module:                                  *)
(*   SpecBatch  runs of main.py over files and directories                 *)
(*   SpecLive   the live loop and its keyboard watcher thread              *)
(*   SpecNoise  reduce_noise applied to bounded sample buffers             *)
(***************************************************************************)
EXTENDS Integers, Sequences, FiniteSets, TLC

VARIABLES
    \* ---- batch (main.py) ----
    tree,        \* the input files present on disk (a snapshot)
    primary,     \* cwd: primary transcript path -> content, or Absent
    transl,      \* translation artifact path -> content, or Absent
    pc,          \* position of main.py's control flow
    args,        \* the parsed command line of the current run
    dirs,        \* os.walk: directories still to list
    files,       \* os.walk: files of the current listing not yet iterated
    cur,         \* the file being processed
    transcript,  \* result of detect_and_route_language (None on failure)
    lang,        \* detected language of the current unit
    calls,       \* collaborator calls made for the current unit, in order
    handed,      \* files handed to recognition in the current run
    skipped,     \* files whose primary write found its path occupied, this run
    cleanStart,  \* the current run started with no output artifact on disk
    lastWrite,   \* outcome of the latest create_transcript_file call
    lastTransl,  \* outcome of the latest translation block
    \* ---- live session (demo audio.py) ----
    lpc,         \* position of the live main loop
    wpc,         \* position of the listen_keyboard thread
    escDown,     \* the esc key is currently held down
    micOpen,     \* the microphone context is entered
    cycles,      \* calibrate/listen cycles started
    lateCycles,  \* cycles started after the watcher had observed esc
    unitFault,   \* the collaborator failure met by the current live unit
    text,        \* what detect_and_translate returned for the current unit
    \* ---- noise reducer ----
    npc,         \* "ready" before reduce_noise is applied, "done" after
    samples,     \* the input buffer
    thr,         \* noise_threshold as a fraction <<num, den>>
    cleaned      \* the buffer reduce_noise returned

batchVars == <<tree, primary, transl, pc, args, dirs, files, cur, transcript,
               lang, calls, handed, skipped, cleanStart, lastWrite, lastTransl>>
liveVars == <<lpc, wpc, escDown, micOpen, cycles, lateCycles, unitFault, text>>
noiseVars == <<npc, samples, thr, cleaned>>
vars == <<batchVars, liveVars, noiseVars>>

(***************************************************************************)
(* Paths.  An input path is kept split as os.path would split it:          *)
(* directory, base name without extension, extension.                      *)
(***************************************************************************)
File(d, b, e) == [dir |-> d, base |-> b, ext |-> e]

Universe ==
    { File("d", "a", ".wav"),
      File("d", "a", ".MP3"),
      File("d", "n", ".txt"),
      File("d/sub", "a", ".wav") }

Trees == { Universe,
           { File("d", "a", ".wav"), File("d", "n", ".txt") } }

DirPaths == {"d", "nodir"}

NoFile == File("", "", "")
None == "<None>"
Absent == "<absent>"

SUPPORTED_FORMATS == {".m4a", ".mp3", ".webm", ".mp4", ".mpga", ".wav", ".mpeg"}

\* str.lower() on the extensions that occur
Lower(e) == CASE e = ".MP3" -> ".mp3"
              [] e = ".WAV" -> ".wav"
              [] OTHER -> e

is_valid_file(fs, f) == f \in fs

is_supported_format(f) == Lower(f.ext) \in SUPPORTED_FORMATS

\* the directories on disk: d and its one subdirectory
Directories == {"d", "d/sub"}

isdir(d) == d \in Directories

Subdirs(d) == IF d = "d" THEN <<"d/sub">> ELSE <<>>

\* the file names one os.walk step lists for directory d
Listing(fs, d) == { f \in fs : f.dir = d }

\* the path string as given on the command line / built by os.path.join
PathOf(f) == f.dir \o "/" \o f.base \o f.ext

\* create_transcript_file: f"{base_filename}-transcript.txt"
OutputPath(f) == f.base \o "-transcript.txt"

\* f"{file_path}-transcript_en.txt"
TranslPath(f) == PathOf(f) \o "-transcript_en.txt"

PrimaryPaths == { OutputPath(f) : f \in Universe }
TranslPaths == { TranslPath(f) : f \in Universe }

(***************************************************************************)
(* Collaborators: what the recognizer, the detector and the translator can *)
(* return.                                                                 *)
(***************************************************************************)
Transcripts == {"hello", "namaste"}
Langs == {"en", "hi"}
\* langdetect.detect(transcript)
Detect(t) == IF t = "hello" THEN "en" ELSE "hi"
RecognitionFailures == {"UnknownValueError", "RequestError", "Exception"}

\* translator.translate(transcript, dest='en').text
TranslatedText(t) == "en(" \o t \o ")"

\* what create_transcript_file writes: header line, then the transcript
\* (no caller passes confidence_scores)
Layout(f, t) == f.base \o ":\n" \o t

Args == [mode : {"file"}, path : Universe, dir : {"-"}, recursive : {FALSE},
         translate : BOOLEAN, noise_reduction : BOOLEAN]
        \cup
        [mode : {"directory"}, path : {NoFile}, dir : DirPaths,
         recursive : BOOLEAN, translate : BOOLEAN, noise_reduction : BOOLEAN]

NoArgs == [mode |-> "-", path |-> NoFile, dir |-> "-", recursive |-> FALSE,
           translate |-> FALSE, noise_reduction |-> FALSE]

(***************************************************************************)
(* main.py                                                                 *)
(***************************************************************************)
BatchInit ==
    /\ tree \in Trees
    /\ primary = [p \in PrimaryPaths |-> Absent]
    /\ transl = [p \in TranslPaths |-> Absent]
    /\ pc = "idle"
    /\ args = NoArgs
    /\ dirs = <<>>
    /\ files = {}
    /\ cur = NoFile
    /\ transcript = None
    /\ lang = None
    /\ calls = <<>>
    /\ handed = {}
    /\ skipped = {}
    /\ cleanStart = TRUE
    /\ lastWrite = "-"
    /\ lastTransl = "-"

NoOutputs ==
    /\ \A p \in PrimaryPaths : primary[p] = Absent
    /\ \A p \in TranslPaths : transl[p] = Absent

\* where control goes when one unit is over: back to the caller's loop
AfterUnit == IF args.mode = "file" THEN "main_end" ELSE "walk"

\* a process is started with a parsed command line (parse_args, main)
Main(a) ==
    /\ pc \in {"idle", "crashed"}
    /\ args' = a
    /\ pc' = IF a.mode = "file" THEN "process_file" ELSE "process_directory"
    /\ dirs' = <<>>
    /\ files' = {}
    /\ cur' = NoFile
    /\ transcript' = None
    /\ lang' = None
    /\ calls' = <<>>
    /\ handed' = {}
    /\ skipped' = {}
    /\ cleanStart' = NoOutputs
    /\ lastWrite' = "-"
    /\ lastTransl' = "-"
    /\ UNCHANGED <<tree, primary, transl>>
    /\ UNCHANGED <<liveVars, noiseVars>>

\* process_file: the validity and format test
ProcessFile ==
    /\ pc = "process_file"
    /\ IF is_valid_file(tree, args.path) /\ is_supported_format(args.path)
       THEN /\ cur' = args.path
            /\ handed' = handed \cup {args.path}
            /\ pc' = "recognize"
       ELSE /\ pc' = "main_end"
            /\ UNCHANGED <<cur, handed>>
    /\ UNCHANGED <<tree, primary, transl, args, dirs, files, transcript, lang,
                   calls, skipped, cleanStart, lastWrite, lastTransl>>
    /\ UNCHANGED <<liveVars, noiseVars>>

\* what iterating os.walk(top) does first: a str top is walked; the list
\* [directory_path] of the non-recursive call is refused with TypeError
WalkAccepts(recursive) == recursive

\* process_directory: the isdir test and the start of the os.walk loop
ProcessDirectory ==
    /\ pc = "process_directory"
    /\ IF ~isdir(args.dir)
       THEN /\ pc' = "main_end"
            /\ dirs' = dirs
       ELSE IF WalkAccepts(args.recursive)
       THEN /\ pc' = "walk"
            /\ dirs' = <<args.dir>>
       ELSE /\ pc' = "crashed"
            /\ dirs' = dirs
    /\ UNCHANGED <<tree, primary, transl, args, files, cur, transcript, lang,
                   calls, handed, skipped, cleanStart, lastWrite, lastTransl>>
    /\ UNCHANGED <<liveVars, noiseVars>>

\* os.walk yields the next directory, top-down; the loop ends after the last
WalkDir ==
    /\ pc = "walk"
    /\ files = {}
    /\ IF dirs = <<>>
       THEN /\ pc' = "main_end"
            /\ UNCHANGED <<dirs, files>>
       ELSE /\ files' = Listing(tree, Head(dirs))
            /\ dirs' = Subdirs(Head(dirs)) \o Tail(dirs)
            /\ pc' = pc
    /\ UNCHANGED <<tree, primary, transl, args, cur, transcript, lang, calls,
                   handed, skipped, cleanStart, lastWrite, lastTransl>>
    /\ UNCHANGED <<liveVars, noiseVars>>

\* for file in files: the order of one listing is the operating system's
NextFile ==
    /\ pc = "walk"
    /\ \E f \in files :
         /\ files' = files \ {f}
         /\ IF is_supported_format(f)
            THEN /\ cur' = f
                 /\ handed' = handed \cup {f}
                 /\ pc' = "recognize"
                 /\ calls' = <<>>
                 /\ lastWrite' = "-"
                 /\ lastTransl' = "-"
            ELSE UNCHANGED <<cur, handed, pc, calls, lastWrite, lastTransl>>
    /\ UNCHANGED <<tree, primary, transl, args, dirs, transcript, lang,
                   skipped, cleanStart>>
    /\ UNCHANGED <<liveVars, noiseVars>>

\* detect_and_route_language: record, recognize_google, detect; every
\* exception is caught and turned into (None, None)
Recognize ==
    /\ pc = "recognize"
    /\ \/ \E t \in Transcripts :
            /\ transcript' = t
            /\ lang' = Detect(t)
            /\ calls' = <<"record", "recognize_google", "detect">>
            /\ pc' = "write"
       \/ \E e \in RecognitionFailures :
            /\ transcript' = None
            /\ lang' = None
            /\ calls' = IF e = "Exception" THEN <<"record">>
                                           ELSE <<"record", "recognize_google">>
            /\ pc' = AfterUnit
    /\ lastWrite' = "-"
    /\ lastTransl' = "-"
    /\ UNCHANGED <<tree, primary, transl, args, dirs, files, cur, handed,
                   skipped, cleanStart>>
    /\ UNCHANGED <<liveVars, noiseVars>>

\* a create_transcript_file without its existence test
ExistsNever(fs, p) == FALSE

\* create_transcript_file's test: os.path.exists(output_file_path)
Exists(fs, p) == fs[p] # Absent

\* create_transcript_file
CreateTranscriptFile ==
    /\ pc = "write"
    /\ LET p == OutputPath(cur) IN
       IF Exists(primary, p)
       THEN /\ lastWrite' = "SkippedExists"
            /\ skipped' = skipped \cup {cur}
            /\ primary' = primary
       ELSE /\ skipped' = skipped
            /\ \/ /\ primary' = [primary EXCEPT ![p] = Layout(cur, transcript)]
                  /\ lastWrite' = "Written"
               \/ /\ primary' = primary             \* open() raised
                  /\ lastWrite' = "Failed"
    /\ pc' = "translate"
    /\ UNCHANGED <<tree, transl, args, dirs, files, cur, transcript, lang,
                   calls, handed, cleanStart, lastTransl>>
    /\ UNCHANGED <<liveVars, noiseVars>>

\* a translation block that also looks at the detected language
ShouldTranslateNonEnglish(translate_to_english, detected_language) ==
    translate_to_english /\ detected_language # "en"

\* if translate_to_english [and translator]:
ShouldTranslate(translate_to_english, detected_language) == translate_to_english

\* the translation block of process_file / process_directory
Translate ==
    /\ pc = "translate"
    /\ LET p == TranslPath(cur) IN
       IF ShouldTranslate(args.translate, lang)
       THEN /\ calls' = Append(calls, "translate")
            /\ \/ /\ transl' = [transl EXCEPT ![p] = TranslatedText(transcript) \o "\n"]
                  /\ lastTransl' = "Written"
               \/ /\ transl' = transl      \* translate() or open() raised
                  /\ lastTransl' = "Failed"
       ELSE /\ lastTransl' = "NotRequested"
            /\ UNCHANGED <<calls, transl>>
    /\ pc' = AfterUnit
    /\ UNCHANGED <<tree, primary, args, dirs, files, cur, transcript, lang,
                   handed, skipped, cleanStart, lastWrite>>
    /\ UNCHANGED <<liveVars, noiseVars>>

\* main: logging.info("Processing completed."), and the process exits
MainEnd ==
    /\ pc = "main_end"
    /\ pc' = "idle"
    /\ args' = NoArgs
    /\ dirs' = <<>>
    /\ files' = {}
    /\ cur' = NoFile
    /\ transcript' = None
    /\ lang' = None
    /\ calls' = <<>>
    /\ handed' = {}
    /\ skipped' = {}
    /\ cleanStart' = NoOutputs
    /\ lastWrite' = "-"
    /\ lastTransl' = "-"
    /\ UNCHANGED <<tree, primary, transl>>
    /\ UNCHANGED <<liveVars, noiseVars>>

BatchNext ==
    \/ \E a \in Args : Main(a)
    \/ ProcessFile
    \/ ProcessDirectory
    \/ WalkDir
    \/ NextFile
    \/ Recognize
    \/ CreateTranscriptFile
    \/ Translate
    \/ MainEnd

(***************************************************************************)
(* demo audio.py: the live session                                         *)
(***************************************************************************)
MaxCycles == 3

LiveLangs == {"en", "hi", "mr"}

LiveInit ==
    /\ lpc = "loop"
    /\ wpc = "polling"
    /\ escDown = FALSE
    /\ micOpen = FALSE
    /\ cycles = 0
    /\ lateCycles = 0
    /\ unitFault = "-"
    /\ text = None

\* the user presses or releases the esc key
KeyPress ==
    /\ escDown' = ~escDown
    /\ UNCHANGED <<lpc, wpc, micOpen, cycles, lateCycles, unitFault, text>>
    /\ UNCHANGED <<batchVars, noiseVars>>

\* listen_keyboard: one poll; on esc it prints "Program terminated." and
\* leaves its own loop
ListenKeyboard ==
    /\ wpc = "polling"
    /\ wpc' = IF escDown THEN "terminated" ELSE "polling"
    /\ UNCHANGED <<lpc, escDown, micOpen, cycles, lateCycles, unitFault, text>>
    /\ UNCHANGED <<batchVars, noiseVars>>

\* main: while True, the head of the loop: entering the microphone context
\* and calibrating.  Nothing is tested before the next cycle starts.
MicEnter ==
    /\ lpc = "loop"
    /\ cycles < MaxCycles
    /\ micOpen' = TRUE
    /\ cycles' = cycles + 1
    /\ lateCycles' = IF wpc = "terminated" THEN lateCycles + 1 ELSE lateCycles
    /\ lpc' = "listen"
    /\ unitFault' = "-"
    /\ text' = None
    /\ UNCHANGED <<wpc, escDown>>
    /\ UNCHANGED <<batchVars, noiseVars>>

\* recognizer.listen(source, timeout=5): audio, or WaitTimeoutError and
\* continue (the with block releases the microphone)
Listen ==
    /\ lpc = "listen"
    /\ \/ /\ lpc' = "unit"
          /\ micOpen' = micOpen
       \/ /\ lpc' = "loop"
          /\ micOpen' = FALSE
    /\ UNCHANGED <<wpc, escDown, cycles, lateCycles, unitFault, text>>
    /\ UNCHANGED <<batchVars, noiseVars>>

\* the exceptions detect_and_translate catches
Caught == {"UnknownValueError", "RequestError"}

\* what the collaborators can answer for one captured unit
RecognizerAnswers ==
    { [kind |-> "raise", exc |-> e, t |-> None] :
        e \in {"UnknownValueError", "RequestError"} }
    \cup { [kind |-> "empty", exc |-> "-", t |-> None] }
    \cup { [kind |-> "result", exc |-> "-", t |-> t] : t \in Transcripts }
DetectAnswers == LiveLangs \cup {"raise"}
TranslatorAnswers == {"ok", "raise"}

Returned(v) == [ret |-> v, raised |-> "-"]
Raised(e) == [ret |-> None, raised |-> e]

\* detect_and_translate: a returned value, or the exception that leaves it
detect_and_translate(rec, det, tr) ==
    IF rec.kind = "raise"
    THEN IF rec.exc \in Caught THEN Returned(None) ELSE Raised(rec.exc)
    ELSE IF rec.kind = "empty" THEN Returned(None)
    ELSE IF det = "raise" THEN Raised("LangDetectException")
    ELSE IF det \in {"hi", "mr"}
    THEN IF tr = "raise" THEN Raised("TranslatorError")
                         ELSE Returned(TranslatedText(rec.t))
    ELSE Returned(rec.t)

\* main: text = detect_and_translate(audio_data); print; leave the with block
DetectAndTranslate ==
    /\ lpc = "unit"
    /\ \E rec \in RecognizerAnswers, det \in DetectAnswers,
          tr \in TranslatorAnswers :
         LET r == detect_and_translate(rec, det, tr) IN
         /\ text' = r.ret
         /\ unitFault' = r.raised
         /\ lpc' = IF r.raised = "-" THEN "loop" ELSE "crashed"
    /\ micOpen' = FALSE
    /\ UNCHANGED <<wpc, escDown, cycles, lateCycles>>
    /\ UNCHANGED <<batchVars, noiseVars>>

LiveNext ==
    \/ KeyPress
    \/ ListenKeyboard
    \/ MicEnter
    \/ Listen
    \/ DetectAndTranslate

(***************************************************************************)
(* reduce_noise, on buffers of one or two samples, where the discrete      *)
(* Fourier transform is real: X = <<x1>>, or X = <<x1 + x2, x1 - x2>>.     *)
(***************************************************************************)
MaxAmp == 3

Lens == {1, 2}
Thresholds == { <<1, 20>>, <<1, 2>>, <<1, 1>> }
Buffers == UNION { [1..n -> -MaxAmp..MaxAmp] : n \in Lens }

\* what casting NaN to int16 yields depends on the build
NaNCasts == {0, -32768}

Abs(v) == IF v < 0 THEN -v ELSE v
Sign(v) == IF v < 0 THEN -1 ELSE 1
Max2(a, b) == IF a > b THEN a ELSE b
\* astype(int16) of n/d, d > 0: the fraction is dropped
Trunc(n, d) == IF n >= 0 THEN n \div d ELSE -((-n) \div d)

RECURSIVE SumOver(_, _)
SumOver(m, S) == IF S = {} THEN 0
                 ELSE LET k == CHOOSE k \in S : TRUE
                      IN m[k] + SumOver(m, S \ {k})

\* np.fft.fft
Fft(x) == IF Len(x) = 1 THEN <<x[1]>> ELSE <<x[1] + x[2], x[1] - x[2]>>

\* np.abs(spectrum)
Magnitude(x) == [k \in 1..Len(x) |-> Abs(Fft(x)[k])]

MaxOf(m) == CHOOSE v \in {m[k] : k \in DOMAIN m} :
                \A k \in DOMAIN m : m[k] <= v

\* noise_mask = magnitude < noise_threshold * np.max(magnitude)
NoiseMask(x, t) ==
    LET m == Magnitude(x)
    IN { k \in 1..Len(x) : m[k] * t[2] < t[1] * MaxOf(m) }

\* np.mean(magnitude[noise_mask]) as sum / count; of no bins it is NaN
NoiseIsNaN(x, t) == NoiseMask(x, t) = {}

\* np.maximum(magnitude - noise_spectrum, 0), times the count of noise bins
CleanMagnitude(x, t) ==
    LET m == Magnitude(x)
        S == NoiseMask(x, t)
    IN [k \in 1..Len(x) |-> Max2(m[k] * Cardinality(S) - SumOver(m, S), 0)]

\* clean_magnitude * np.exp(1j * phase): the phase of a real bin is its sign
CleanSpectrum(x, t) ==
    [k \in 1..Len(x) |-> CleanMagnitude(x, t)[k] * Sign(Fft(x)[k])]

\* np.fft.ifft(clean_spectrum).real.astype(np.int16)
Ifft(x, t) ==
    LET c == CleanSpectrum(x, t)
        n == Cardinality(NoiseMask(x, t))
    IN IF Len(x) = 1 THEN <<Trunc(c[1], n)>>
       ELSE <<Trunc(c[1] + c[2], 2 * n), Trunc(c[1] - c[2], 2 * n)>>

\* reduce_noise: the buffers it can return
reduce_noise(x, t) ==
    IF NoiseIsNaN(x, t)
    THEN { [k \in 1..Len(x) |-> c] : c \in NaNCasts }
    ELSE { Ifft(x, t) }

NoiseInit ==
    /\ npc = "ready"
    /\ samples \in Buffers
    /\ thr \in Thresholds
    /\ cleaned = <<>>

ReduceNoise ==
    /\ npc = "ready"
    /\ cleaned' \in reduce_noise(samples, thr)
    /\ npc' = "done"
    /\ UNCHANGED <<samples, thr>>
    /\ UNCHANGED <<batchVars, liveVars>>

\* the next buffer is acquired
NextBuffer ==
    /\ npc = "done"
    /\ samples' \in Buffers
    /\ thr' \in Thresholds
    /\ cleaned' = <<>>
    /\ npc' = "ready"
    /\ UNCHANGED <<batchVars, liveVars>>

NoiseNext == ReduceNoise \/ NextBuffer

(***************************************************************************)
(* Specifications.  Each runs one program; the others stay as constructed. *)
(***************************************************************************)
NoiseIdle == npc = "ready" /\ samples = <<0>> /\ thr = <<1, 20>> /\ cleaned = <<>>

InitBatch == BatchInit /\ LiveInit /\ NoiseIdle
InitLive == LiveInit /\ BatchInit /\ NoiseIdle
InitNoise == NoiseInit /\ BatchInit /\ LiveInit

SpecBatch == InitBatch /\ [][BatchNext]_vars

SpecLive == InitLive /\ [][LiveNext]_vars

SpecNoise == InitNoise /\ [][NoiseNext]_vars

(***************************************************************************)
(* Properties                                                              *)
(***************************************************************************)
Range(q) == { q[i] : i \in DOMAIN q }

Precedes(q, a, b) ==
    \E i, j \in DOMAIN q : i < j /\ q[i] = a /\ q[j] = b

\* the files a directory run is to hand to recognition: the supported files
\* under the directory, or only its immediate children without --recursive
Candidates(fs, d, recursive) ==
    { f \in fs : /\ is_supported_format(f)
                 /\ \/ f.dir = d
                    \/ recursive /\ f.dir = d \o "/sub" }

\* C1: a primary transcript that exists is never written again: a call of
\* create_transcript_file that finds its path occupied reports SkippedExists
\* and leaves every primary transcript as it was, and in no step of any run
\* does the content of an existing primary transcript change.
C1_PrimaryNeverRewritten ==
    [][ /\ \A p \in PrimaryPaths :
             primary[p] # Absent => primary'[p] = primary[p]
        /\ pc = "write" =>
             IF primary[OutputPath(cur)] # Absent
             THEN primary' = primary /\ lastWrite' = "SkippedExists"
             ELSE lastWrite' # "SkippedExists" ]_vars

\* C1 witness: a call was skipped whose transcript differs from what the
\* occupied path holds, so a write would have changed the file.
C1_SkippedOverDifferentContent ==
    /\ lastWrite = "SkippedExists"
    /\ primary[OutputPath(cur)] # Layout(cur, transcript)

\* C2: a translation artifact that exists is never overwritten: in no step
\* does the content of an existing translation artifact change.
C2_TranslationNeverOverwritten ==
    [][ \A p \in TranslPaths :
          transl[p] # Absent => transl'[p] = transl[p] ]_vars

\* C3: a directory batch is never aborted: no exception escapes main, and
\* when main logs its completion every candidate file has been handed to
\* recognition whatever happened to the others.
C3_BatchNeverAborts ==
    (args.mode = "directory" /\ isdir(args.dir)) =>
        /\ pc # "crashed"
        /\ pc = "main_end" =>
              Candidates(tree, args.dir, args.recursive) \subseteq handed

\* C4: once the watcher has observed esc, the live loop starts no cycle
\* after the iteration boundary that follows: at most the one cycle whose
\* start raced with the signal begins after it.
C4_NoCycleAfterCancellation == lateCycles <= 1

\* C5: when process_directory is over, the files it handed to recognition
\* are exactly the supported files under the directory (recursive) or the
\* supported immediate children (not recursive), and it did not raise.
C5_DirectoryEnumeration ==
    (args.mode = "directory" /\ isdir(args.dir)
       /\ pc \in {"main_end", "crashed"}) =>
        /\ handed = Candidates(tree, args.dir, args.recursive)
        /\ pc = "main_end"

C7_DenoisedBeforeRecognition ==
    (args.noise_reduction /\ "recognize_google" \in Range(calls)) =>
        Precedes(calls, "reduce_noise", "recognize_google")

\* C8: no failure inside one captured unit aborts the live loop.
C8_LiveFailuresContained == lpc # "crashed"

\* C9: in a run that started with no output on disk, no unit finds its
\* primary transcript path occupied by another unit's artifact.
C9_NoUnitSkippedInCleanRun == cleanStart => skipped = {}

\* C10: when no bin is below the threshold, reduce_noise returns the input
\* samples unchanged (a noise estimate of zero).
C10_ZeroNoiseFallback ==
    (npc = "done" /\ NoiseMask(samples, thr) = {}) => cleaned = samples

====
